---------------------------- MODULE Spec2Model ----------------------------
(***************************************************************************)
(* Model of the ETL engine of src/app.py (Nexus Dashboard): the bounded    *)
(* retry fetch fetch_data_nuclear, the column normaliser                   *)
(* normalize_and_deduplicate, the row sanitiser sanitize_dataframe and the *)
(* two entry points load_global_data and load_weekly_data.                 *)
(*                                                                         *)
(* Text is a sequence of one-character strings, so that lower(), strip()   *)
(* and the substring test "x in s" are computed as Python computes them.   *)
(* A cell of a pandas frame is a record: na = TRUE is NaN (an absent       *)
(* cell), otherwise s is the text of the cell.  A frame is a record of its *)
(* column labels (cells) and its rows; a row keeps the index label idx it  *)
(* had in the grid, as a pandas row does.                                  *)
(***************************************************************************)
EXTENDS Integers, Sequences, FiniteSets, TLC

VARIABLES
    done,      \* the functions of the frame pipeline that have returned
    df,        \* the frame handed to normalize_and_deduplicate / sanitize_dataframe
    out,       \* what that call returned
    raw,       \* what fetch_data_nuclear handed to an entry point
    exc,       \* the round in which the runtime raises (0: none)
    table,     \* what load_global_data returned
    weeks,     \* what load_weekly_data returned
    url,       \* fetch_data_nuclear: its argument
    pc,        \* fetch_data_nuclear: the statement it is at
    attempt,   \* fetch_data_nuclear: the loop variable
    enc,       \* fetch_data_nuclear: the position in encodings
    requests,  \* the requests.get calls made so far
    waits,     \* the time.sleep calls made so far, in seconds
    bust_url,  \* fetch_data_nuclear: the address it requests
    result     \* what fetch_data_nuclear returned, once pc is "done"

vars == <<done, df, out, raw, exc, table, weeks,
          url, pc, attempt, enc, requests, waits, bust_url, result>>

frame_vars == <<df, out, raw, exc, table, weeks>>

fetch_vars == <<url, pc, attempt, enc, requests, waits, bust_url, result>>

(***************************************************************************)
(* Text primitives                                                         *)
(***************************************************************************)

\* str.lower() on one character (ASCII letters).
LowerChar(ch) ==
    CASE ch = "A" -> "a" [] ch = "B" -> "b" [] ch = "C" -> "c" [] ch = "D" -> "d"
      [] ch = "E" -> "e" [] ch = "F" -> "f" [] ch = "G" -> "g" [] ch = "H" -> "h"
      [] ch = "I" -> "i" [] ch = "J" -> "j" [] ch = "K" -> "k" [] ch = "L" -> "l"
      [] ch = "M" -> "m" [] ch = "N" -> "n" [] ch = "O" -> "o" [] ch = "P" -> "p"
      [] ch = "Q" -> "q" [] ch = "R" -> "r" [] ch = "S" -> "s" [] ch = "T" -> "t"
      [] ch = "U" -> "u" [] ch = "V" -> "v" [] ch = "W" -> "w" [] ch = "X" -> "x"
      [] ch = "Y" -> "y" [] ch = "Z" -> "z" [] OTHER -> ch

\* str.lower()
lower(s) == [i \in 1..Len(s) |-> LowerChar(s[i])]

\* Python's "sub in s"
contains(sub, s) ==
    \E i \in 0..(Len(s) - Len(sub)) : \A k \in 1..Len(sub) : s[i + k] = sub[k]

\* The characters str.strip() and the regex class \s remove.
IsSpace(ch) == ch \in {" ", "\t", "\n", "\r"}

\* str.strip()
strip(s) ==
    LET keep == {i \in 1..Len(s) : ~IsSpace(s[i])}
    IN  IF keep = {} THEN <<>>
        ELSE LET lo == CHOOSE i \in keep : \A j \in keep : i <= j
                 hi == CHOOSE i \in keep : \A j \in keep : j <= i
             IN  SubSeq(s, lo, hi)

\* The regex ^\s*$ of sanitize_dataframe: the text is empty or all whitespace.
IsBlankText(s) == \A i \in 1..Len(s) : IsSpace(s[i])

DigitChar(n) ==
    CASE n = 0 -> "0" [] n = 1 -> "1" [] n = 2 -> "2" [] n = 3 -> "3" [] n = 4 -> "4"
      [] n = 5 -> "5" [] n = 6 -> "6" [] n = 7 -> "7" [] n = 8 -> "8" [] n = 9 -> "9"

\* str(n) of a natural number, as the f-string of load_weekly_data formats it.
RECURSIVE IntText(_)
IntText(n) == IF n < 10 THEN <<DigitChar(n)>>
              ELSE IntText(n \div 10) \o <<DigitChar(n % 10)>>

(***************************************************************************)
(* Cells                                                                   *)
(***************************************************************************)

NaN == [na |-> TRUE, s |-> <<>>]

Txt(s) == [na |-> FALSE, s |-> s]

\* pd.notna
notna(c) == ~c.na

\* str(x) / astype(str) of a cell: NaN becomes the text nan.
str(c) == IF c.na THEN <<"n", "a", "n">> ELSE c.s

Range(f) == {f[i] : i \in DOMAIN f}

\* The outcome of a call: the value it returned, or an exception, with the
\* value the caller's variable held when it was raised.
Returned(v) == [raised |-> FALSE, value |-> v]

Raised(v) == [raised |-> TRUE, value |-> v]

\* The positions 1..n that are in keep, in increasing order.
RECURSIVE SelectIdx(_, _)
SelectIdx(n, keep) ==
    IF n = 0 THEN <<>>
    ELSE IF n \in keep THEN Append(SelectIdx(n - 1, keep), n)
         ELSE SelectIdx(n - 1, keep)

(***************************************************************************)
(* Frames                                                                  *)
(***************************************************************************)

\* A frame: its column labels and its rows (index label and one cell per column).
Frame(columns, rows) == [columns |-> columns, rows |-> rows]

\* DataFrame.empty: an axis of length 0.
empty(f) == Len(f.rows) = 0 \/ Len(f.columns) = 0

\* pd.DataFrame()
EmptyFrame == Frame(<<>>, <<>>)

\* "name in df.columns"
HasColumn(f, name) == \E j \in 1..Len(f.columns) : f.columns[j] = Txt(name)

\* The position of the (first) column labelled name.
ColIdx(f, name) ==
    CHOOSE j \in 1..Len(f.columns) :
        /\ f.columns[j] = Txt(name)
        /\ \A k \in 1..(j - 1) : f.columns[k] # Txt(name)

\* df[name] as the sequence of its cells, top to bottom.
Column(f, name) == [i \in 1..Len(f.rows) |-> f.rows[i].cells[ColIdx(f, name)]]

\* df[name] = values
SetColumn(f, name, values) ==
    Frame(f.columns,
          [i \in 1..Len(f.rows) |->
              [f.rows[i] EXCEPT !.cells[ColIdx(f, name)] = values[i]]])

\* df[name] = np.nan for a label the frame does not have: a new last column.
AddNaNColumn(f, name) ==
    Frame(Append(f.columns, Txt(name)),
          [i \in 1..Len(f.rows) |->
              [f.rows[i] EXCEPT !.cells = Append(f.rows[i].cells, NaN)]])

(***************************************************************************)
(* normalize_and_deduplicate                                               *)
(***************************************************************************)

kw_owner == <<"o", "w", "n", "e", "r">>
kw_respons == <<"r", "e", "s", "p", "o", "n", "s">>
kw_dono == <<"d", "o", "n", "o">>
kw_task == <<"t", "a", "s", "k">>
kw_tarefa == <<"t", "a", "r", "e", "f", "a">>
kw_status == <<"s", "t", "a", "t", "u", "s">>
kw_estado == <<"e", "s", "t", "a", "d", "o">>
kw_prio == <<"p", "r", "i", "o">>
kw_link == <<"l", "i", "n", "k">>
kw_drive == <<"d", "r", "i", "v", "e">>
kw_pasta == <<"p", "a", "s", "t", "a">>
kw_contact == <<"c", "o", "n", "t", "a", "c", "t">>
kw_contacto == <<"c", "o", "n", "t", "a", "c", "t", "o">>

Owner == <<"O", "w", "n", "e", "r">>
Task == <<"T", "a", "s", "k">>
Status == <<"S", "t", "a", "t", "u", "s">>
Prioridade == <<"P", "r", "i", "o", "r", "i", "d", "a", "d", "e">>
Link == <<"L", "i", "n", "k">>
PointOfContact == <<"P", "o", "i", "n", "t", " ", "o", "f", " ", "C", "o", "n", "t", "a", "c", "t">>

\* df.columns.astype(str).str.strip()
clean_columns(columns) == [j \in 1..Len(columns) |-> strip(str(columns[j]))]

\* col_map with the task test ahead of the owner test.
col_map_task_first(col) ==
    LET c == lower(col)
    IN  IF contains(kw_task, c) \/ contains(kw_tarefa, c) THEN Task
        ELSE IF contains(kw_owner, c) \/ contains(kw_respons, c) \/ contains(kw_dono, c)
            THEN Owner
        ELSE IF contains(kw_status, c) \/ contains(kw_estado, c) THEN Status
        ELSE IF contains(kw_prio, c) THEN Prioridade
        ELSE IF contains(kw_link, c) \/ contains(kw_drive, c) \/ contains(kw_pasta, c)
            THEN Link
        ELSE IF contains(kw_contact, c) \/ contains(kw_contacto, c)
            THEN PointOfContact
        ELSE col

\* The if/elif chain that fills col_map, with the lookup rename() makes: the
\* canonical name of the first keyword group the lowered name contains; a
\* name with no keyword has no entry and rename() leaves it as it is.
col_map(col) ==
    LET c == lower(col)
    IN  IF contains(kw_owner, c) \/ contains(kw_respons, c) \/ contains(kw_dono, c)
            THEN Owner
        ELSE IF contains(kw_task, c) \/ contains(kw_tarefa, c) THEN Task
        ELSE IF contains(kw_status, c) \/ contains(kw_estado, c) THEN Status
        ELSE IF contains(kw_prio, c) THEN Prioridade
        ELSE IF contains(kw_link, c) \/ contains(kw_drive, c) \/ contains(kw_pasta, c)
            THEN Link
        ELSE IF contains(kw_contact, c) \/ contains(kw_contacto, c)
            THEN PointOfContact
        ELSE col

\* df.rename(columns=col_map) on the cleaned names.
rename(names) == [j \in 1..Len(names) |-> col_map(names[j])]

\* duplicated(keep='last'): the positions whose name has no later occurrence.
not_duplicated_keep_last(names) ==
    {j \in 1..Len(names) : \A k \in (j + 1)..Len(names) : names[k] # names[j]}

\* ~df.columns.duplicated(): the positions whose name has no earlier occurrence.
not_duplicated(names) ==
    {j \in 1..Len(names) : \A k \in 1..(j - 1) : names[k] # names[j]}

\* df.loc[:, mask]: the columns at the positions of keep, in order.
select_columns(names, rows, keep) ==
    LET pos == SelectIdx(Len(names), keep)
    IN  Frame([k \in 1..Len(pos) |-> Txt(names[pos[k]])],
              [i \in 1..Len(rows) |->
                  [rows[i] EXCEPT !.cells =
                      [k \in 1..Len(pos) |-> rows[i].cells[pos[k]]]]])

normalize_and_deduplicate(f) ==
    IF empty(f) THEN f
    ELSE LET names == rename(clean_columns(f.columns))
         IN  select_columns(names, f.rows, not_duplicated(names))

(***************************************************************************)
(* sanitize_dataframe                                                      *)
(***************************************************************************)

required == <<Owner, Task, Status, Prioridade, Link, PointOfContact>>

Geral == <<"G", "e", "r", "a", "l">>
Pendente == <<"P", "e", "n", "d", "e", "n", "t", "e">>
Normal == <<"N", "o", "r", "m", "a", "l">>
nan_text == <<"n", "a", "n">>

\* if req not in df.columns: df[req] = np.nan
inject(f, req) == IF HasColumn(f, req) THEN f ELSE AddNaNColumn(f, req)

\* Step 2: for req in required, for the first n names of required.
RECURSIVE inject_required(_, _)
inject_required(f, n) ==
    IF n = 0 THEN f ELSE inject(inject_required(f, n - 1), required[n])

\* The replacement with the pattern ^$: only the empty text becomes NaN.
replace_blank_only_empty(col) ==
    [i \in 1..Len(col) |-> IF notna(col[i]) /\ col[i].s = <<>> THEN NaN ELSE col[i]]

\* Series.replace(r'^\s*$', np.nan, regex=True)
replace_blank(col) ==
    [i \in 1..Len(col) |-> IF notna(col[i]) /\ IsBlankText(col[i].s) THEN NaN ELSE col[i]]

\* Series.ffill(): a NaN takes the value the cell above has after filling.
RECURSIVE ffill(_)
ffill(col) ==
    IF Len(col) = 0 THEN <<>>
    ELSE LET n == Len(col)
             above == ffill(SubSeq(col, 1, n - 1))
         IN  Append(above, IF col[n].na /\ n > 1 THEN above[n - 1] ELSE col[n])

\* Series.fillna(value)
fillna(col, value) == [i \in 1..Len(col) |-> IF col[i].na THEN Txt(value) ELSE col[i]]

\* Series.astype(str)
astype_str(col) == [i \in 1..Len(col) |-> Txt(str(col[i]))]

\* Step 3: the Owner fill-down.
fill_owner(f) ==
    IF HasColumn(f, Owner)
    THEN SetColumn(f, Owner, fillna(ffill(replace_blank(Column(f, Owner))), Geral))
    ELSE f

\* Series.replace('nan', ''): a value that is exactly nan becomes empty.
replace_nan_text(col) ==
    [i \in 1..Len(col) |-> IF col[i] = Txt(nan_text) THEN Txt(<<>>) ELSE col[i]]

\* The row mask with > 0 in place of > 1.
task_mask_nonblank(f) == {i \in 1..Len(f.rows) : Len(strip(Column(f, Task)[i].s)) > 0}

\* The row mask of step 4: df['Task'].str.strip().str.len() > 1
task_mask(f) == {i \in 1..Len(f.rows) : Len(strip(Column(f, Task)[i].s)) > 1}

\* Step 4: Task to text, then df = df[mask].
clean_task(f) ==
    IF HasColumn(f, Task)
    THEN LET g == SetColumn(f, Task, replace_nan_text(astype_str(Column(f, Task))))
             pos == SelectIdx(Len(g.rows), task_mask(g))
         IN  Frame(g.columns, [k \in 1..Len(pos) |-> g.rows[pos[k]]])
    ELSE f

\* Step 5 without its last line: Link is left as it came.
safe_defaults_without_link(f) ==
    LET a == SetColumn(f, Status, astype_str(fillna(Column(f, Status), Pendente)))
    IN  SetColumn(a, Prioridade, astype_str(fillna(Column(a, Prioridade), Normal)))

\* Step 5: fillna(default).astype(str) on Status, Prioridade and Link.
safe_defaults(f) ==
    LET a == SetColumn(f, Status, astype_str(fillna(Column(f, Status), Pendente)))
        b == SetColumn(a, Prioridade, astype_str(fillna(Column(a, Prioridade), Normal)))
    IN  SetColumn(b, Link, astype_str(fillna(Column(b, Link), <<>>)))

\* The number of columns labelled name.
LabelCount(f, name) == Cardinality({j \in 1..Len(f.columns) : f.columns[j] = Txt(name)})

\* Steps 3 to 5 on the frame that steps 1 and 2 left.  An empty frame comes
\* back from normalize_and_deduplicate as it is, duplicate labels included,
\* and with two columns labelled Task df['Task'] is a frame, which has no .str
\* accessor: step 4 raises AttributeError.
heal(f) ==
    IF LabelCount(f, Task) > 1 THEN Raised(EmptyFrame)
    ELSE Returned(safe_defaults(clean_task(fill_owner(f))))

sanitize_dataframe(f) ==
    heal(inject_required(normalize_and_deduplicate(f), Len(required)))

(***************************************************************************)
(* The entry points.  raw is what fetch_data_nuclear returned: none = TRUE *)
(* is None, otherwise grid is the frame read with header=None, a sequence  *)
(* of rows of equal width.  Row and column numbers are Python's (from 0).  *)
(* e is the round of the block loop (1 for the single table) whose call of *)
(* sanitize_dataframe is cut short by an exception of the runtime, 0 when  *)
(* there is none.                                                          *)
(***************************************************************************)

\* range(min(20, len(raw))): the rows the vertical scanner reads.
ScanRows == 20

\* end_idx = start_idx + 6: the columns of one week.
BlockWidth == 6

SprintIndefinida == <<"S", "p", "r", "i", "n", "t", " ", "I", "n", "d", "e", "f", "i", "n", "i", "d", "a">>

Min(a, b) == IF a <= b THEN a ELSE b

\* raw.shape[1]
NCols(grid) == IF Len(grid) = 0 THEN 0 ELSE Len(grid[1])

\* raw.iloc[h+1:, c0:c1] with the cells c0..c1-1 of row h as column labels.
block_frame(grid, h, c0, c1) ==
    Frame(SubSeq(grid[h + 1], c0 + 1, c1),
          [k \in 1..(Len(grid) - h - 1) |->
              [idx |-> h + k, cells |-> SubSeq(grid[h + 1 + k], c0 + 1, c1)]])

\* The test of load_global_data on one lowered cell of a row.
global_marker(s) ==
    contains(kw_owner, s) \/ contains(kw_respons, s) \/ contains(kw_tarefa, s)

\* The test of load_weekly_data on one lowered cell of a row.
weekly_marker(s) == contains(kw_owner, s) \/ contains(kw_respons, s)

\* The vertical scanner of load_global_data from row i on: the first row with
\* a marker cell, -1 when the window ends without one.
RECURSIVE scan_global(_, _)
scan_global(grid, i) ==
    IF i >= Min(ScanRows, Len(grid)) THEN -1
    ELSE IF \E j \in 1..Len(grid[i + 1]) : global_marker(lower(str(grid[i + 1][j])))
         THEN i
         ELSE scan_global(grid, i + 1)

\* The vertical scanner of load_weekly_data.
RECURSIVE scan_weekly(_, _)
scan_weekly(grid, i) ==
    IF i >= Min(ScanRows, Len(grid)) THEN -1
    ELSE IF \E j \in 1..Len(grid[i + 1]) : weekly_marker(lower(str(grid[i + 1][j])))
         THEN i
         ELSE scan_weekly(grid, i + 1)

\* The try block of load_global_data.
global_try(grid, e) ==
    LET header_idx == scan_global(grid, 0)
    IN  IF header_idx = -1 THEN Returned(EmptyFrame)
        ELSE LET d == block_frame(grid, header_idx, 0, NCols(grid))
             IN  IF e = 1 THEN Raised(EmptyFrame) ELSE sanitize_dataframe(d)

\* load_global_data: the guard on raw, then the try block under "except:".
load_global_data(r, e) ==
    IF r.none \/ Len(r.grid) < 2 THEN Returned(EmptyFrame)
    ELSE LET t == global_try(r.grid, e)
         IN  IF t.raised THEN Returned(EmptyFrame) ELSE t

\* row_dates: the row above the header, all NaN when the header is row 0.
row_dates(grid, header_idx) ==
    IF header_idx > 0 THEN grid[header_idx]
    ELSE [j \in 1..NCols(grid) |-> NaN]

\* starts: the columns of the header row with an owner marker, left to right.
starts(grid, header_idx) ==
    LET row_headers == grid[header_idx + 1]
    IN  SelectIdx(Len(row_headers),
                  {j \in 1..Len(row_headers) : weekly_marker(lower(str(row_headers[j])))})

\* week_name before the uniqueness step, for the block that starts at start_idx.
label_of(dates, start_idx) ==
    IF start_idx < Len(dates)
    THEN LET val == dates[start_idx + 1]
         IN  IF notna(val) /\ strip(str(val)) # <<>> /\ lower(str(val)) # nan_text
             THEN strip(str(val))
             ELSE SprintIndefinida
    ELSE SprintIndefinida

\* if week_name in weeks_map: week_name += f" ({start_idx})"
unique_name(week_name, weeks_map, start_idx) ==
    IF week_name \in DOMAIN weeks_map
    THEN week_name \o <<" ", "(">> \o IntText(start_idx) \o <<")">>
    ELSE week_name

\* weeks_map[week_name] = clean
store(weeks_map, week_name, clean) ==
    [k \in DOMAIN weeks_map \cup {week_name} |->
        IF k = week_name THEN clean ELSE weeks_map[k]]

\* clean = sanitize_dataframe(block); if not clean.empty: weeks_map[week_name] = clean
store_clean(weeks_map, week_name, clean) ==
    IF clean.raised THEN Raised(weeks_map)
    ELSE IF ~empty(clean.value) THEN Returned(store(weeks_map, week_name, clean.value))
    ELSE Returned(weeks_map)

\* The same test with < in place of <=.
fits_strict(end_idx, grid) == end_idx < NCols(grid)

\* if end_idx <= raw.shape[1]: the block lies within the grid.
fits(end_idx, grid) == end_idx <= NCols(grid)

\* The body of "for start_idx in starts" for the n-th start, entered with
\* weeks_map: the map after the round, or Raised with the map as it stood.
weekly_round(weeks_map, grid, header_idx, n, e) ==
    LET start_idx == starts(grid, header_idx)[n] - 1
        week_name == unique_name(label_of(row_dates(grid, header_idx), start_idx),
                                 weeks_map, start_idx)
        end_idx == start_idx + BlockWidth
    IN  IF fits(end_idx, grid)
        THEN LET block == block_frame(grid, header_idx, start_idx, end_idx)
             IN  IF e = n THEN Raised(weeks_map)
                 ELSE store_clean(weeks_map, week_name, sanitize_dataframe(block))
        ELSE Returned(weeks_map)

\* One more round after `before`, unless a round raised already.
after_round(before, grid, header_idx, n, e) ==
    IF before.raised THEN before
    ELSE weekly_round(before.value, grid, header_idx, n, e)

\* The loop after its first n rounds; the rounds after one that raised do not
\* run.
RECURSIVE weekly_loop(_, _, _, _)
weekly_loop(grid, header_idx, n, e) ==
    IF n = 0 THEN Returned(<<>>)
    ELSE after_round(weekly_loop(grid, header_idx, n - 1, e), grid, header_idx, n, e)

\* The try block of load_weekly_data.
weekly_try(grid, e) ==
    LET header_idx == scan_weekly(grid, 0)
    IN  IF header_idx = -1 THEN Returned(<<>>)
        ELSE weekly_loop(grid, header_idx, Len(starts(grid, header_idx)), e)

\* load_weekly_data with "except Exception: return weeks_map".
load_weekly_data_partial(r, e) ==
    IF r.none \/ Len(r.grid) < 2 THEN Returned(<<>>)
    ELSE Returned(weekly_try(r.grid, e).value)

\* load_weekly_data: the guard on raw, then the try block under "except
\* Exception: return {}".
load_weekly_data(r, e) ==
    IF r.none \/ Len(r.grid) < 2 THEN Returned(<<>>)
    ELSE LET t == weekly_try(r.grid, e)
         IN  IF t.raised THEN Returned(<<>>) ELSE t

(***************************************************************************)
(* Inputs of the frame pipeline                                            *)
(***************************************************************************)

\* Bounds of the enumerated inputs.
MaxNormCols == 3
MaxNormRows == 1

\* Header cells as users write them: exact and padded canonical names, other
\* languages and cases, a name with two keywords, a free name, a blank cell.
HeaderCells ==
    { Txt(<<"O", "w", "n", "e", "r">>), Txt(<<"T", "a", "s", "k">>), Txt(<<"T", "a", "s", "k", " ", "O", "w", "n", "e", "r">>), Txt(<<" ", "t", "a", "s", "k", " ">>), Txt(<<"T", "A", "R", "E", "F", "A">>),
      Txt(<<"E", "s", "t", "a", "d", "o">>), Txt(<<"P", "r", "i", "o">>), Txt(<<"D", "r", "i", "v", "e", " ", "l", "i", "n", "k">>), Txt(<<"C", "o", "n", "t", "a", "c", "t", "o">>),
      Txt(<<"N", "o", "t", "e", "s">>), NaN }

\* The body cell of column j in row i: its text names where it came from.
MarkCell(i, j) == Txt(<<DigitChar(i), DigitChar(j)>>)

MarkRows(n, w) ==
    [i \in 1..n |-> [idx |-> i - 1, cells |-> [j \in 1..w |-> MarkCell(i, j)]]]

\* The frames handed to normalize_and_deduplicate: one to MaxNormCols header
\* cells over at most MaxNormRows rows.
NormInput ==
    \E w \in 1..MaxNormCols : \E h \in [1..w -> HeaderCells] : \E n \in 0..MaxNormRows :
        df = Frame(h, MarkRows(n, w))

NoFrame == Returned(EmptyFrame)

\* fetch_data_nuclear returned None.
NoGrid == [none |-> TRUE, grid |-> <<>>]

IdleFrames ==
    /\ df = EmptyFrame /\ out = EmptyFrame
    /\ raw = NoGrid /\ exc = 0
    /\ table = NoFrame /\ weeks = Returned(<<>>)

IdleFetch ==
    /\ url = NaN /\ pc = "idle" /\ attempt = 0 /\ enc = 0
    /\ requests = <<>> /\ waits = <<>> /\ bust_url = <<>> /\ result = NoGrid

(***************************************************************************)
(* Specification of normalize_and_deduplicate                              *)
(***************************************************************************)

InitNormalize ==
    /\ done = {}
    /\ NormInput
    /\ out = EmptyFrame
    /\ raw = NoGrid /\ exc = 0
    /\ table = NoFrame /\ weeks = Returned(<<>>)
    /\ IdleFetch

Normalize ==
    /\ "normalize_and_deduplicate" \notin done
    /\ out' = normalize_and_deduplicate(df)
    /\ done' = done \cup {"normalize_and_deduplicate"}
    /\ UNCHANGED <<df, raw, exc, table, weeks>>
    /\ UNCHANGED fetch_vars

NextNormalize == Normalize

SpecNormalize == InitNormalize /\ [][NextNormalize]_vars

(***************************************************************************)
(* Specification of sanitize_dataframe                                     *)
(***************************************************************************)

MaxSanRows == 3

Alice == Txt(<<"A", "l", "i", "c", "e">>)
Bob == Txt(<<"B", "o", "b">>)

\* Rows 0..k-1 with the cells r gives them.
RowsOf(r, k) == [i \in 1..k |-> [idx |-> i - 1, cells |-> r[i]]]

\* Owner and Task columns: merged (absent or blank) owner cells under two
\* owners, tasks that are absent, one character long, or real.
OwnerTaskInput ==
    \E k \in 0..MaxSanRows :
        \E r \in [1..k -> {NaN, Txt(<<" ">>), Alice, Bob}
                            \X {NaN, Txt(<<"-">>), Txt(<<"a", "b">>)}] :
            df = Frame(<<Txt(Owner), Txt(Task)>>, RowsOf(r, k))

\* No owner column, a status and a contact column in Portuguese, with cells
\* that are absent or text.
StatusContactInput ==
    \E k \in 0..MaxSanRows :
        \E r \in [1..k -> {Txt(<<"a", "b">>), Txt(<<" ", "x", " ">>)} \X {NaN, Txt(<<"D", "o", "n", "e">>)}
                            \X {NaN, Txt(<<"Z", "e", "d">>)}] :
            df = Frame(<<Txt(<<"T", "a", "r", "e", "f", "a">>), Txt(<<"E", "s", "t", "a", "d", "o">>), Txt(<<"C", "o", "n", "t", "a", "c", "t", "o">>)>>, RowsOf(r, k))

\* The fill-down example: Owner Alice, -, -, Bob, - over five real tasks.
FillDownExample ==
    Frame(<<Txt(Owner), Txt(Task)>>,
          [i \in 1..5 |->
              [idx |-> i - 1,
               cells |-> << CASE i = 1 -> Alice [] i = 4 -> Bob [] OTHER -> NaN,
                            Txt(<<"a", "b">>) >>]])

\* A header with the Task label twice, over no row and over one row.
TwoTaskFrames ==
    { Frame(<<Txt(Owner), Txt(Task), Txt(Task)>>, <<>>),
      Frame(<<Txt(Owner), Txt(Task), Txt(Task)>>,
            <<[idx |-> 0, cells |-> <<Alice, Txt(<<"a", "b">>), Txt(<<"c", "d">>)>>]>>) }

SanInput ==
    \/ OwnerTaskInput
    \/ StatusContactInput
    \/ df = FillDownExample
    \/ df \in TwoTaskFrames

InitSanitize ==
    /\ done = {}
    /\ SanInput
    /\ out = NoFrame
    /\ raw = NoGrid /\ exc = 0
    /\ table = NoFrame /\ weeks = Returned(<<>>)
    /\ IdleFetch

Sanitize ==
    /\ "sanitize_dataframe" \notin done
    /\ out' = sanitize_dataframe(df)
    /\ done' = done \cup {"sanitize_dataframe"}
    /\ UNCHANGED <<df, raw, exc, table, weeks>>
    /\ UNCHANGED fetch_vars

NextSanitize == Sanitize

SpecSanitize == InitSanitize /\ [][NextSanitize]_vars

(***************************************************************************)
(* Specification of load_global_data                                       *)
(***************************************************************************)

MaxBody == 2

\* The number of rows above the header row: none, one, and the lengths that
\* put the header on the last row of the scan window and on the two after it.
PreambleLengths == {0, 1, ScanRows - 1, ScanRows, ScanRows + 1}

\* A row of the sheet above the table: a title in the first cell.
TitleRow(w) == [j \in 1..w |-> IF j = 1 THEN Txt(<<"P", "l", "a", "n">>) ELSE NaN]

\* Header rows three cells wide: with an owner marker, with the Task label
\* twice, with a task header in English only, in Portuguese, with no marker.
GlobalHeaders ==
    { <<Txt(Owner), Txt(Task), Txt(Status)>>,
      <<Txt(Owner), Txt(Task), Txt(Task)>>,
      <<Txt(Task), Txt(Status), NaN>>,
      <<Txt(<<"T", "A", "R", "E", "F", "A">>), Txt(<<"D", "o", "n", "o">>), Txt(<<"E", "s", "t", "a", "d", "o">>)>>,
      <<Txt(<<"E", "s", "t", "a", "d", "o">>), Txt(<<"R", "e", "s", "p", "o", "n", "s", "a", "v", "e", "l">>), Txt(<<"t", "a", "s", "k">>)>>,
      <<Txt(<<"N", "o", "t", "e", "s">>), Txt(<<"V", "a", "l", "u", "e">>), NaN>> }

\* The cells of a data row: a name or nothing, then nothing, a dash, a short
\* text, a padded letter or a text with the word tarefa, then a fixed text.
GlobalCells ==
    {NaN, Txt(<<"A", "n", "n">>)}
        \X {NaN, Txt(<<"-">>), Txt(<<"a", "b">>), Txt(<<" ", "x", " ">>), Txt(<<"t", "a", "r", "e", "f", "a", " ", "1">>)}
        \X {Txt(<<"z", "z">>)}

Grid(g) == [none |-> FALSE, grid |-> g]

\* What fetch_data_nuclear hands to load_global_data: None, or a grid of title
\* rows, a header row and at most n data rows.
GlobalInput(n) ==
    \/ raw = NoGrid
    \/ \E pre \in PreambleLengths : \E h \in GlobalHeaders : \E k \in 0..n :
          \E r \in [1..k -> GlobalCells] :
             raw = Grid([i \in 1..(pre + 1 + k) |->
                           IF i <= pre THEN TitleRow(3)
                           ELSE IF i = pre + 1 THEN h
                           ELSE r[i - pre - 1]])

InitGlobal ==
    /\ done = {}
    /\ GlobalInput(MaxBody)
    /\ exc = 0
    /\ df = EmptyFrame /\ out = EmptyFrame
    /\ table = NoFrame /\ weeks = Returned(<<>>)
    /\ IdleFetch

LoadGlobal ==
    /\ "load_global_data" \notin done
    /\ table' = load_global_data(raw, exc)
    /\ done' = done \cup {"load_global_data"}
    /\ UNCHANGED <<df, out, raw, exc, weeks>>
    /\ UNCHANGED fetch_vars

NextGlobal == LoadGlobal

SpecGlobal == InitGlobal /\ [][NextGlobal]_vars

(***************************************************************************)
(* Specification of load_weekly_data                                       *)
(***************************************************************************)

MaxBlocks == 3

\* The header of a week: in English for the odd weeks, in Portuguese and two
\* cells short for the even ones.
WeekHeader(b) ==
    IF b % 2 = 1
    THEN <<Txt(Owner), Txt(Task), Txt(Status), Txt(<<"P", "r", "i", "o">>), Txt(Link), Txt(<<"C", "o", "n", "t", "a", "c", "t">>)>>
    ELSE <<Txt(<<"R", "e", "s", "p", "o", "n", "s", "a", "v", "e", "l">>), Txt(<<"T", "a", "r", "e", "f", "a">>), Txt(<<"E", "s", "t", "a", "d", "o">>), Txt(<<"P", "r", "i", "o">>), NaN, NaN>>

\* The first cells of one more week, cut off by the edge of the sheet.
PartialHeader == <<Txt(Owner), Txt(Task)>>

\* The cells above the first column of a week: nothing, a date label, the
\* label padded, the label with a suffix like the one the loader appends, a
\* second label, and the text Nan.
LabelCells ==
    { NaN, Txt(<<"W", "e", "e", "k", " ", "1">>), Txt(<<"W", "e", "e", "k", " ", "1", " ">>), Txt(<<"W", "e", "e", "k", " ", "1", " ", "(", "1", "2", ")">>), Txt(<<"W", "e", "e", "k", " ", "2">>),
      Txt(<<"N", "a", "n">>) }

\* The data row of a week: an owner and, unless the week is the dead one, a task.
WeekCells(b, dead) ==
    <<Txt(<<"A", "n", "n">>), IF b = dead THEN NaN ELSE Txt(<<"a", "b">>), NaN, NaN, NaN, NaN>>

RECURSIVE Concat(_, _)
Concat(f, n) == IF n = 0 THEN <<>> ELSE Concat(f, n - 1) \o f[n]

\* The sheet: with `labelled`, a row of labels; the header row of nb weeks and
\* `tail` cells of one more (labelled Week 9); with `rows`, one data row in
\* which week `dead` (0: none) has no task.
WeeklyGrid(labelled, nb, tail, labels, rows, dead) ==
    LET cut(s) == SubSeq(s, 1, tail)
        label_row == Concat([b \in 1..nb |-> <<labels[b], NaN, NaN, NaN, NaN, NaN>>], nb)
                        \o cut(<<Txt(<<"W", "e", "e", "k", " ", "9">>), NaN>>)
        header_row == Concat([b \in 1..nb |-> WeekHeader(b)], nb) \o cut(PartialHeader)
        data_row == Concat([b \in 1..nb |-> WeekCells(b, dead)], nb)
                        \o cut(<<Txt(<<"A", "n", "n">>), Txt(<<"a", "b">>)>>)
    IN  (IF labelled THEN <<label_row>> ELSE <<>>) \o <<header_row>>
            \o (IF rows THEN <<data_row>> ELSE <<>>)

\* What fetch_data_nuclear hands to load_weekly_data: a sheet whose weeks all
\* have a task, labelled from L; a sheet with or without a data row and a dead
\* week, labelled from K; or a sheet whose header is the first row.
WeeklyInput(L, K) ==
    \E nb \in 1..MaxBlocks : \E tail \in {0, 2} :
        \/ \E labels \in [1..nb -> L] :
              raw = Grid(WeeklyGrid(TRUE, nb, tail, labels, TRUE, 0))
        \/ \E rows \in BOOLEAN : \E dead \in 0..(IF rows THEN nb ELSE 0) :
              \/ \E labels \in [1..nb -> K] :
                    raw = Grid(WeeklyGrid(TRUE, nb, tail, labels, rows, dead))
              \/ raw = Grid(WeeklyGrid(FALSE, nb, tail, <<>>, rows, dead))

\* The labels of the sheets with a dead week.
PlainLabels == { Txt(<<"W", "e", "e", "k", " ", "1">>), Txt(<<"W", "e", "e", "k", " ", "2">>) }

InitWeekly ==
    /\ done = {}
    /\ (raw = NoGrid \/ WeeklyInput(LabelCells, PlainLabels))
    /\ exc = 0
    /\ df = EmptyFrame /\ out = EmptyFrame
    /\ table = NoFrame /\ weeks = Returned(<<>>)
    /\ IdleFetch

LoadWeekly ==
    /\ "load_weekly_data" \notin done
    /\ weeks' = load_weekly_data(raw, exc)
    /\ done' = done \cup {"load_weekly_data"}
    /\ UNCHANGED <<df, out, raw, exc, table>>
    /\ UNCHANGED fetch_vars

NextWeekly == LoadWeekly

SpecWeekly == InitWeekly /\ [][NextWeekly]_vars

(***************************************************************************)
(* Specification of the two entry points under failures                    *)
(***************************************************************************)

MaxIngestBody == 1
MaxExc == 2

InitIngest ==
    /\ done = {}
    /\ (GlobalInput(MaxIngestBody) \/ WeeklyInput({Txt(<<"W", "e", "e", "k", " ", "1">>)}, {Txt(<<"W", "e", "e", "k", " ", "1">>)}))
    /\ exc \in 0..MaxExc
    /\ df = EmptyFrame /\ out = EmptyFrame
    /\ table = NoFrame /\ weeks = Returned(<<>>)
    /\ IdleFetch

NextIngest == LoadGlobal \/ LoadWeekly

SpecIngest == InitIngest /\ [][NextIngest]_vars

(***************************************************************************)
(* fetch_data_nuclear                                                      *)
(*                                                                         *)
(* url is a cell: NaN for None, otherwise the text given.  pc is the       *)
(* statement the call is at: "start" (the guard), "get" (the head of the   *)
(* retry loop), "sleep" (the handler of RequestException), "decode" (the   *)
(* head of the loop over encodings) and "done".  A request is recorded     *)
(* with the address asked and how the try block went on from it.           *)
(***************************************************************************)

\* retries=3
retries == 3

\* encodings
encodings == <<"utf-8", "latin-1", "cp1252", "iso-8859-1">>

\* str.startswith
startswith(s, prefix) ==
    Len(s) >= Len(prefix) /\ SubSeq(s, 1, Len(prefix)) = prefix

\* uuid.uuid4(), shortened to one character.
UUIDs == {<<"7">>, <<"9">>}

\* if not url or not str(url).startswith("http"): return None
rejected(u) == u.na \/ u.s = <<>> \/ ~startswith(u.s, <<"h", "t", "t", "p">>)

\* bust_url: the trimmed address, the cache-busting parameter and, for a
\* Google address without it, the CSV output parameter.
make_bust_url(u, uuid) ==
    LET clean_url == strip(u)
        sep == IF contains(<<"?">>, clean_url) THEN <<"&">> ELSE <<"?">>
        busted == clean_url \o sep \o <<"b", "u", "s", "t", "=">> \o uuid
    IN  IF contains(<<"d", "o", "c", "s", ".", "g", "o", "o", "g", "l", "e", ".", "c", "o", "m">>, busted) /\ ~contains(<<"o", "u", "t", "p", "u", "t", "=", "c", "s", "v">>, busted)
        THEN busted \o <<"&", "o", "u", "t", "p", "u", "t", "=", "c", "s", "v">>
        ELSE busted

\* How the try block goes on from requests.get: RequestException from the get
\* or from raise_for_status, a content type with html, another exception, or
\* a body to decode.
Responses == {"RequestException", "html", "Exception", "content"}

\* How content.decode(enc) and read_csv go for one encoding: a frame,
\* UnicodeDecodeError, ParserError or another exception.  latin-1 and
\* iso-8859-1 decode every byte.
Decodings(e) ==
    IF e \in {"latin-1", "iso-8859-1"} THEN {"frame", "ParserError", "Exception"}
    ELSE {"frame", "UnicodeDecodeError", "ParserError", "Exception"}

\* The frames read_csv returns here.
FetchedGrids == {Grid(<<TitleRow(1)>>), Grid(<<TitleRow(2), <<Txt(Owner), Txt(Task)>>>>)}

\* The wait counted from the loop variable itself.
backoff_from_zero(a) == a

\* time.sleep(attempt + 1)
backoff(a) == a + 1

\* The arguments: None, the empty text, addresses the guard rejects, plain
\* addresses, one with a query, and Google addresses without and with the CSV
\* parameter.
FetchUrls ==
    { NaN,
      Txt(<<>>),
      Txt(<<"f", "t", "p", ":", "/", "/", "a">>),
      Txt(<<" ", "h", "t", "t", "p", ":", "/", "/", "a">>),
      Txt(<<"h", "t", "t", "p", ":", "/", "/", "a">>),
      Txt(<<"h", "t", "t", "p", ":", "/", "/", "a", " ">>),
      Txt(<<"h", "t", "t", "p", "s", ":", "/", "/", "a", "?", "x", "=", "1">>),
      Txt(<<"h", "t", "t", "p", ":", "/", "/", "d", "o", "c", "s", ".", "g", "o", "o", "g", "l", "e", ".", "c", "o", "m", "/", "s">>),
      Txt(<<"h", "t", "t", "p", ":", "/", "/", "d", "o", "c", "s", ".", "g", "o", "o", "g", "l", "e", ".", "c", "o", "m", "/", "s", "?", "o", "u", "t", "p", "u", "t", "=", "c", "s", "v">>) }

InitFetch ==
    /\ done = {}
    /\ IdleFrames
    /\ url \in FetchUrls
    /\ pc = "start" /\ attempt = 0 /\ enc = 0
    /\ requests = <<>> /\ waits = <<>> /\ bust_url = <<>> /\ result = NoGrid

\* Lines 54-64: the guard and the address.
Prepare ==
    /\ pc = "start"
    /\ IF rejected(url)
       THEN /\ pc' = "done" /\ result' = NoGrid
            /\ UNCHANGED bust_url
       ELSE /\ \E uuid \in UUIDs : bust_url' = make_bust_url(url.s, uuid)
            /\ pc' = "get"
            /\ UNCHANGED result
    /\ UNCHANGED <<url, attempt, enc, requests, waits>>
    /\ UNCHANGED <<done, df, out, raw, exc, table, weeks>>

\* One pass of "for attempt in range(retries)" up to the decoding cascade.
Get ==
    /\ pc = "get" /\ attempt < retries
    /\ \E r \in Responses :
          /\ requests' = Append(requests, [url |-> bust_url, went |-> r])
          /\ CASE r = "RequestException" -> pc' = "sleep" /\ UNCHANGED <<enc, result>>
               [] r = "content" -> pc' = "decode" /\ enc' = 1 /\ UNCHANGED result
               [] OTHER -> pc' = "done" /\ result' = NoGrid /\ UNCHANGED enc
    /\ UNCHANGED <<url, attempt, waits, bust_url>>
    /\ UNCHANGED <<done, df, out, raw, exc, table, weeks>>

\* except RequestException: time.sleep(attempt + 1); continue
Sleep ==
    /\ pc = "sleep"
    /\ waits' = Append(waits, backoff(attempt))
    /\ attempt' = attempt + 1
    /\ pc' = "get"
    /\ UNCHANGED <<url, enc, requests, bust_url, result>>
    /\ UNCHANGED <<done, df, out, raw, exc, table, weeks>>

\* One pass of "for enc in encodings", and "return None" after the last.
Decode ==
    /\ pc = "decode"
    /\ \E d \in Decodings(encodings[enc]) :
          CASE d = "frame" ->
                  /\ \E g \in FetchedGrids : result' = g
                  /\ pc' = "done" /\ UNCHANGED enc
            [] d = "Exception" ->
                  pc' = "done" /\ result' = NoGrid /\ UNCHANGED enc
            [] OTHER ->
                  IF enc < Len(encodings)
                  THEN enc' = enc + 1 /\ UNCHANGED <<pc, result>>
                  ELSE pc' = "done" /\ result' = NoGrid /\ UNCHANGED enc
    /\ UNCHANGED <<url, attempt, requests, waits, bust_url>>
    /\ UNCHANGED <<done, df, out, raw, exc, table, weeks>>

\* Line 105: the loop ran out of attempts.
Exhausted ==
    /\ pc = "get" /\ attempt >= retries
    /\ pc' = "done" /\ result' = NoGrid
    /\ UNCHANGED <<url, attempt, enc, requests, waits, bust_url>>
    /\ UNCHANGED <<done, df, out, raw, exc, table, weeks>>

NextFetch == Prepare \/ Get \/ Sleep \/ Decode \/ Exhausted

SpecFetch == InitFetch /\ [][NextFetch]_vars

\* The call runs on: requests.get has a timeout, sleep returns, and nothing
\* else waits.
FairFetch == SpecFetch /\ WF_vars(NextFetch)

(***************************************************************************)
(* Column renaming and duplicate collapse (C8, C10)                        *)
(***************************************************************************)

\* The keyword groups in the order the claim gives them, as a table.
KeywordGroups ==
    << [keys |-> {kw_owner, kw_respons, kw_dono}, name |-> Owner],
       [keys |-> {kw_task, kw_tarefa}, name |-> Task],
       [keys |-> {kw_status, kw_estado}, name |-> Status],
       [keys |-> {kw_prio}, name |-> Prioridade],
       [keys |-> {kw_link, kw_drive, kw_pasta}, name |-> Link],
       [keys |-> {kw_contact, kw_contacto}, name |-> PointOfContact] >>

GroupsIn(name) ==
    {g \in 1..Len(KeywordGroups) :
        \E k \in KeywordGroups[g].keys : contains(k, lower(name))}

\* The name the ordered lookup gives a trimmed header.
ExpectedName(name) ==
    IF GroupsIn(name) = {} THEN name
    ELSE KeywordGroups[CHOOSE g \in GroupsIn(name) : \A h \in GroupsIn(name) : g <= h].name

Normalized == "normalize_and_deduplicate" \in done

ExpectedNames == {ExpectedName(strip(str(df.columns[j]))) : j \in 1..Len(df.columns)}

ResultNames == {out.columns[k].s : k \in 1..Len(out.columns)}

\* C10 as stated: whatever the frame, the names of the result are the names the
\* ordered first-match lookup gives the trimmed headers (read here on the
\* frames whose headers are all text).
C10_RenamingOfAnyFrame ==
    (Normalized /\ \A j \in 1..Len(df.columns) : notna(df.columns[j])) =>
        /\ \A k \in 1..Len(out.columns) : notna(out.columns[k])
        /\ ResultNames = ExpectedNames

\* C10, amended: for a frame with at least one row and one column, the names
\* of the result are the names the ordered first-match lookup gives the trimmed
\* headers (first group in the order owner, task, status, priority, link,
\* contact; a header with no keyword keeps its trimmed name).  An empty frame
\* is returned as it is, its headers neither trimmed nor renamed.
C10_Renaming ==
    (Normalized /\ ~empty(df)) =>
        /\ \A k \in 1..Len(out.columns) : notna(out.columns[k])
        /\ ResultNames = ExpectedNames

\* Witness of C10: a frame with rows whose header with two keywords became Owner and whose
\* free header kept its name.
C10_Witness ==
    /\ Normalized /\ ~empty(df)
    /\ df.columns = <<Txt(<<"T", "a", "s", "k", " ", "O", "w", "n", "e", "r">>), Txt(<<"N", "o", "t", "e", "s">>), Txt(<<" ", "t", "a", "s", "k", " ">>)>>
    /\ out.columns = <<Txt(Owner), Txt(<<"N", "o", "t", "e", "s">>), Txt(Task)>>

\* The leftmost source column that carries the name of result column k.
SourceOf(k) ==
    LET names == rename(clean_columns(df.columns))
    IN  CHOOSE j \in 1..Len(names) :
            /\ Txt(names[j]) = out.columns[k]
            /\ \A i \in 1..(j - 1) : names[i] # names[j]

DistinctNames ==
    \A a, b \in 1..Len(out.columns) : a # b => out.columns[a] # out.columns[b]

Collapsed ==
    /\ DistinctNames
    /\ {out.columns[k] : k \in 1..Len(out.columns)}
           = {Txt(n) : n \in Range(rename(clean_columns(df.columns)))}
    /\ \A a, b \in 1..Len(out.columns) : a < b => SourceOf(a) < SourceOf(b)
    /\ Len(out.rows) = Len(df.rows)
    /\ \A i \in 1..Len(out.rows) : \A k \in 1..Len(out.columns) :
           out.rows[i].cells[k] = df.rows[i].cells[SourceOf(k)]

\* C8 as stated: whatever the frame, the names of the result are pairwise
\* distinct (and, where the frame has values, in source order, each with the
\* values of its leftmost source).
C8_CollapseOfAnyFrame ==
    Normalized => (DistinctNames /\ (~empty(df) => Collapsed))

\* C8, amended: for a frame with at least one row and one column, the column
\* names of the result are pairwise distinct, the surviving columns keep their
\* left-to-right order, and each holds the values of the leftmost source column
\* that has its name after renaming.  An empty frame is returned as it is,
\* duplicate labels included.
C8_Collapse == (Normalized /\ ~empty(df)) => Collapsed

\* Witness of C8: two columns that became Task by renaming and two equal from the start: the
\* first of each survives, with its own values.
C8_Witness ==
    /\ Normalized
    /\ df.columns = <<Txt(<<"T", "A", "R", "E", "F", "A">>), Txt(<<"T", "a", "s", "k">>), Txt(<<"T", "a", "s", "k">>)>>
    /\ Len(df.rows) = 1
    /\ out.columns = <<Txt(Task)>>
    /\ out.rows[1].cells = <<MarkCell(1, 1)>>

(***************************************************************************)
(* Row sanitising (C3, C4)                                                 *)
(***************************************************************************)

Sanitized == "sanitize_dataframe" \in done /\ ~out.raised

\* The leftmost source column of df whose header the lookup names `name`, 0
\* when df has none.
SourceColumn(name) ==
    LET cols == {j \in 1..Len(df.columns) :
                    ExpectedName(strip(str(df.columns[j]))) = name}
    IN  IF cols = {} THEN 0 ELSE CHOOSE j \in cols : \A k \in cols : j <= k

\* The cell of input row p in source column j, absent when j is 0.
SourceCell(j, p) == IF j = 0 THEN NaN ELSE df.rows[p].cells[j]

\* Neither absent nor whitespace-only.
Present(c) == notna(c) /\ ~IsBlankText(c.s)

\* The position in df of the output row r, found by its index label.
InputPos(r) == CHOOSE p \in 1..Len(df.rows) : df.rows[p].idx = out.value.rows[r].idx

OutCell(name, r) == out.value.rows[r].cells[ColIdx(out.value, name)]

\* C3: every kept row has the Owner of the nearest input row at or above it
\* whose Owner cell is neither absent nor whitespace-only, dropped rows
\* counted, and Geral when there is none; no kept row has an absent or blank
\* Owner; Alice, -, -, Bob, - fills down to Alice, Alice, Alice, Bob, Bob.
C3_FillDown ==
    Sanitized =>
        /\ LET j == SourceColumn(Owner)
               c == ColIdx(out.value, Owner)
           IN  \A r \in 1..Len(out.value.rows) :
                  LET p == InputPos(r)
                      above == {q \in 1..p : Present(SourceCell(j, q))}
                      own == out.value.rows[r].cells[c]
                  IN  /\ Present(own)
                      /\ IF above = {} THEN own = Txt(Geral)
                         ELSE \E q \in above :
                                 /\ \A k \in above : k <= q
                                 /\ own = SourceCell(j, q)
        /\ df = FillDownExample =>
              Column(out.value, Owner) = <<Alice, Alice, Alice, Bob, Bob>>

\* Witness of C3: a kept row with a blank Owner cell took its Owner from a row that the Task
\* filter dropped.
C3_Witness ==
    /\ Sanitized
    /\ LET j == SourceColumn(Owner)
       IN  \E r \in 1..Len(out.value.rows) :
              LET p == InputPos(r)
              IN  /\ p > 1
                  /\ ~Present(SourceCell(j, p))
                  /\ Present(SourceCell(j, p - 1))
                  /\ \A x \in 1..Len(out.value.rows) : InputPos(x) # p - 1
                  /\ OutCell(Owner, r) = SourceCell(j, p - 1)

AllColumnsPresent == \A n \in 1..Len(required) : HasColumn(out.value, required[n])

\* C4 as stated: every row of the result has the six canonical fields, each
\* holding text.
C4_AllFieldsText ==
    Sanitized =>
        /\ AllColumnsPresent
        /\ \A r \in 1..Len(out.value.rows) : \A n \in 1..Len(required) :
              notna(OutCell(required[n], r))

\* C4, amended: every row of the result has the six canonical fields; Task,
\* Status, Prioridade and Link hold text, Owner is neither absent nor blank,
\* and Point of Contact is the source cell as it came, absent when the source
\* cell is absent or the frame had no such column.
C4_FieldsPresent ==
    Sanitized =>
        /\ AllColumnsPresent
        /\ \A r \in 1..Len(out.value.rows) :
              /\ \A name \in {Task, Status, Prioridade, Link} : notna(OutCell(name, r))
              /\ Present(OutCell(Owner, r))
              /\ OutCell(PointOfContact, r) =
                    SourceCell(SourceColumn(PointOfContact), InputPos(r))

\* Witness of C4: a kept row of a frame with no Status, Link or contact column, and one whose
\* contact cell is text.
C4_Witness ==
    /\ Sanitized
    /\ Len(out.value.rows) > 0
    /\ \/ /\ SourceColumn(Link) = 0
          /\ SourceColumn(Status) = 0
          /\ OutCell(Status, 1) = Txt(Pendente)
          /\ OutCell(Link, 1) = Txt(<<>>)
          /\ OutCell(PointOfContact, 1) = NaN
       \/ /\ OutCell(PointOfContact, 1) = Txt(<<"Z", "e", "d">>)
          /\ OutCell(Status, 1) = Txt(Pendente)
          /\ OutCell(Owner, 1) = Txt(Geral)

(***************************************************************************)
(* The single table (C2, C7)                                               *)
(***************************************************************************)

GlobalLoaded == "load_global_data" \in done

\* The leftmost cell of header row h (numbered from 0) that the lookup names
\* `name`, 0 when the row has none.
GridColumn(h, name) ==
    LET cols == {j \in 1..Len(raw.grid[h + 1]) :
                    ExpectedName(strip(str(raw.grid[h + 1][j]))) = name}
    IN  IF cols = {} THEN 0 ELSE CHOOSE j \in cols : \A k \in cols : j <= k

\* The data rows below header row h whose Task cell, trimmed, has at least n
\* characters.
TaskRows(h, n) ==
    LET j == GridColumn(h, Task)
    IN  {i \in (h + 2)..Len(raw.grid) :
            /\ j # 0
            /\ notna(raw.grid[i][j])
            /\ Len(strip(raw.grid[i][j].s)) >= n}

\* C2 as stated: with a header in the scan window, the table has as many rows
\* as there are data rows whose trimmed Task is not blank, those of a single
\* character included.
C2_RowCountNonBlank ==
    (GlobalLoaded /\ ~raw.none /\ scan_global(raw.grid, 0) # -1) =>
        Len(table.value.rows) = Cardinality(TaskRows(scan_global(raw.grid, 0), 1))

\* C2, amended: with a header in the scan window, the table has as many rows
\* as there are data rows below the header whose Task cell, trimmed, has more
\* than one character; a data row whose trimmed Task is a single character is
\* dropped like a blank one.
C2_RowCount ==
    (GlobalLoaded /\ ~raw.none /\ scan_global(raw.grid, 0) # -1) =>
        Len(table.value.rows) = Cardinality(TaskRows(scan_global(raw.grid, 0), 2))

\* Witness of C2: a table that kept one row and dropped a dash and a blank Task.
C2_Witness ==
    /\ GlobalLoaded /\ ~raw.none
    /\ LET h == scan_global(raw.grid, 0)
       IN  /\ h > 0
           /\ Len(raw.grid) = h + 3
           /\ Cardinality(TaskRows(h, 1)) = 2
           /\ Cardinality(TaskRows(h, 2)) = 1
           /\ Len(table.value.rows) = 1

\* A cell with a marker as the claim has it: owner, responsible or task, the
\* task header in English included.
ClaimedMarker(c) ==
    LET s == lower(str(c))
    IN  \/ contains(kw_owner, s) \/ contains(kw_respons, s)
        \/ contains(kw_task, s) \/ contains(kw_tarefa, s)

\* The rows of the scan window with a marker cell.
ClaimedHeaders ==
    {i \in 0..(Min(ScanRows, Len(raw.grid)) - 1) :
        \E j \in 1..Len(raw.grid[i + 1]) : ClaimedMarker(raw.grid[i + 1][j])}

\* Two tables with the same rows and, when there are rows, the same columns.
SameTable(a, b) == a.rows = b.rows /\ (Len(a.rows) > 0 => a.columns = b.columns)

\* C7: the header is the first row of the scan window with an owner, responsible
\* or task marker, and the table is the sanitised rows below it; with no such
\* row in the window the table is empty.
C7_FirstMatchInWindow ==
    (GlobalLoaded /\ ~raw.none /\ Len(raw.grid) >= 2) =>
        IF ClaimedHeaders = {} THEN empty(table.value)
        ELSE LET h == CHOOSE i \in ClaimedHeaders : \A k \in ClaimedHeaders : i <= k
                 d == block_frame(raw.grid, h, 0, NCols(raw.grid))
             IN  SameTable(table.value, sanitize_dataframe(d).value)

(***************************************************************************)
(* The weekly tables (C5, C6)                                              *)
(***************************************************************************)

WeeklyLoaded == "load_weekly_data" \in done

\* The header row load_weekly_data found (from 0), and whether it found one.
WeeklyHeader == scan_weekly(raw.grid, 0)

HasWeeklyHeader == ~raw.none /\ Len(raw.grid) >= 2 /\ WeeklyHeader # -1

\* The block starts (from 0), left to right.
BlockStarts ==
    LET s == starts(raw.grid, WeeklyHeader) IN [n \in 1..Len(s) |-> s[n] - 1]

\* The sanitised slice of the block that starts at column s.
BlockTable(s) ==
    sanitize_dataframe(block_frame(raw.grid, WeeklyHeader, s, s + BlockWidth))

\* The block starts whose block is complete and whose table is not empty.
EmittedStarts ==
    {s \in Range(BlockStarts) :
        /\ s + BlockWidth <= NCols(raw.grid)
        /\ ~BlockTable(s).raised
        /\ ~empty(BlockTable(s).value)}

\* C5: the mapping has one key for every emitted block, whatever the labels:
\* no emitted block is lost to a key that another block has taken.
C5_NoBlockLost ==
    (WeeklyLoaded /\ HasWeeklyHeader) =>
        Cardinality(DOMAIN weeks.value) = Cardinality(EmittedStarts)

\* The cell above column s of the header row.
LabelAbove(s) == raw.grid[WeeklyHeader][s + 1]

LabelsDistinctNonBlank ==
    /\ WeeklyHeader > 0
    /\ \A s \in Range(BlockStarts) :
          notna(LabelAbove(s)) /\ strip(LabelAbove(s).s) # <<>>
    /\ \A a, b \in Range(BlockStarts) : a # b => LabelAbove(a) # LabelAbove(b)

TrimmedLabelsDistinct ==
    /\ \A a, b \in Range(BlockStarts) :
          a # b => strip(LabelAbove(a).s) # strip(LabelAbove(b).s)
    /\ \A s \in Range(BlockStarts) : lower(LabelAbove(s).s) # nan_text

\* One entry for each emitted block, keyed by the trimmed label above it, with
\* the sanitised slice as its table.
OneEntryPerBlock ==
    /\ DOMAIN weeks.value = {strip(LabelAbove(s).s) : s \in EmittedStarts}
    /\ \A s \in EmittedStarts :
          weeks.value[strip(LabelAbove(s).s)] = BlockTable(s).value

\* C6 as stated: with pairwise distinct, non-blank labels above the block
\* starts, the mapping has one entry for each complete block with a non-empty
\* table, keyed by the trimmed label.
C6_BlocksOfDistinctLabels ==
    (WeeklyLoaded /\ HasWeeklyHeader /\ LabelsDistinctNonBlank) => OneEntryPerBlock

\* C6, amended: with non-blank labels above the block starts that are pairwise
\* distinct after trimming and none of which reads nan in any case, the mapping
\* has one entry for each block start s with s+6 <= column count and a non-empty
\* sanitised slice, keyed by the trimmed label above column s, whose table is
\* the sanitised slice of columns [s, s+6) of the rows below the header; a
\* block that runs past the last column or whose table is empty has no entry.
C6_Blocks ==
    (WeeklyLoaded /\ HasWeeklyHeader /\ LabelsDistinctNonBlank /\ TrimmedLabelsDistinct)
        => OneEntryPerBlock

\* Witness of C6: Week 1 and Week 2 above columns 0 and 6 of a sheet of 12 columns, and the
\* same with the first cells of a third week that the sheet cuts off.
C6_Witness ==
    /\ WeeklyLoaded /\ HasWeeklyHeader /\ LabelsDistinctNonBlank
    /\ \/ NCols(raw.grid) = 12 /\ Range(BlockStarts) = {0, 6}
       \/ NCols(raw.grid) = 14 /\ Range(BlockStarts) = {0, 6, 12}
    /\ LabelAbove(0) = Txt(<<"W", "e", "e", "k", " ", "1">>)
    /\ LabelAbove(6) = Txt(<<"W", "e", "e", "k", " ", "2">>)
    /\ EmittedStarts = {0, 6}
    /\ DOMAIN weeks.value = {<<"W", "e", "e", "k", " ", "1">>, <<"W", "e", "e", "k", " ", "2">>}

(***************************************************************************)
(* Bounded retry of the fetch (C9)                                         *)
(***************************************************************************)

Fetched == pc = "done"

\* What the last request came to, "" before the first.
LastWent == IF requests = <<>> THEN "" ELSE requests[Len(requests)].went

\* The state part of C9: the count of requests, what each came to, the waits
\* and the value returned.
C9_Bounded ==
    /\ Len(requests) <= 3
    /\ \A k \in 1..(Len(requests) - 1) : requests[k].went = "RequestException"
    /\ waits = [k \in 1..Len(waits) |-> k]
    /\ Len(waits) = Cardinality({k \in 1..Len(requests) : requests[k].went = "RequestException"})
           - (IF pc = "sleep" THEN 1 ELSE 0)
    /\ Fetched =>
          /\ LastWent \in {"RequestException", "html", "Exception"} => result = NoGrid
          /\ ~result.none => LastWent = "content"
          /\ LastWent = "RequestException" => Len(requests) = 3 /\ waits = <<1, 2, 3>>

C1_Total ==
    /\ GlobalLoaded =>
          /\ ~table.raised
          /\ (\/ raw.none \/ Len(raw.grid) < 2
              \/ scan_global(raw.grid, 0) = -1
              \/ global_try(raw.grid, exc).raised) => table.value = EmptyFrame
    /\ WeeklyLoaded =>
          /\ ~weeks.raised
          /\ (\/ raw.none \/ Len(raw.grid) < 2
              \/ scan_weekly(raw.grid, 0) = -1
              \/ weekly_try(raw.grid, exc).raised) => weeks.value = <<>>

\* Witness of C1: the second block failed with the first already stored, and the caller got
\* the empty mapping.
C1_Witness ==
    /\ WeeklyLoaded /\ HasWeeklyHeader
    /\ exc = 2
    /\ weekly_try(raw.grid, exc).raised
    /\ weekly_try(raw.grid, exc).value # <<>>
    /\ weeks = Returned(<<>>)

=============================================================================
